---- MODULE Spec2Model ----
(***************************************************************************)
(* Field-aware keyed-hash reverse index of the PII search system, with its *)
(* two backends: the in-memory set store (FieldAwareRedisIndexer) and the  *)
(* relational table pii_search_index (PIIDatabaseSearchIndexer for writes, *)
(* PIIDatabaseSearchAPI for reads).                                        *)
(*                                                                         *)
(* Strings are sequences of one-character strings.  The alphabet is        *)
(* "a" "b" (folded letters), "A" "B" (their upper case), "fa" (U+FF41, the *)
(* full-width a, which NFKC maps to "a"), " " (white space), and for the   *)
(* opaque tokens "t" "0" "1" "_" and the delimiter ",".                    *)
(***************************************************************************)
EXTENDS Integers, Sequences, FiniteSets, TLC

VARIABLES
    redis,      \* in-memory store: index key -> set of tokens (only non-empty sets exist)
    db,         \* pii_search_index: hmac_key -> row
    now,        \* the clock, in retention periods
    minResultSize, \* config.search.minResultSize of the process
    indexed,    \* history: the indexFieldValue calls that completed
    ops,        \* number of index operations performed so far
    response,   \* what the last operation returned to its caller
    calls,      \* indexFieldValue calls in flight on one PIIDatabaseSearchIndexer
    session,    \* transaction state of the indexer's single database connection
    lookups     \* the multi-key search in flight on PIIDatabaseSearchAPI

vars == <<redis, db, now, minResultSize, indexed, ops, response, calls, session, lookups>>

----------------------------------------------------------------------------
(* Bounds of the model *)

MaxOps == 2
MaxTime == 2
MaxQLen == 4
MaxMinResult == 3

(* Program constants *)

\* this.k = 3
K == 3
\* retentionDate || now + 365 days: one clock unit is one retention period
RETENTION == 1

----------------------------------------------------------------------------
(* Strings *)

Max(a, b) == IF a >= b THEN a ELSE b

Min(a, b) == IF a <= b THEN a ELSE b

\* s.slice(from, to) of JavaScript, 0-based, end exclusive
slice(s, from, to) == SubSeq(s, from + 1, Min(to, Len(s)))

\* [...s].reverse().join('')
reverse(s) == [i \in 1..Len(s) |-> s[Len(s) + 1 - i]]

\* String.prototype.normalize('NFKC') on the alphabet of the model
NFKC(s) == [i \in 1..Len(s) |-> IF s[i] = "fa" THEN "a" ELSE s[i]]

\* String.prototype.toLowerCase
toLowerCase(s) ==
    [i \in 1..Len(s) |-> CASE s[i] = "A" -> "a" [] s[i] = "B" -> "b" [] OTHER -> s[i]]

RECURSIVE trimStart(_)
trimStart(s) == IF s # <<>> /\ Head(s) = " " THEN trimStart(Tail(s)) ELSE s

\* String.prototype.trim
trim(s) == reverse(trimStart(reverse(trimStart(s))))

\* normalize(s): s.normalize('NFKC').toLowerCase().trim()
normalize(s) == trim(toLowerCase(NFKC(s)))

\* All strings over the set of characters cs of length at most n
RECURSIVE StringsUpTo(_, _)
StringsUpTo(cs, n) ==
    IF n = 0 THEN {<<>>}
    ELSE LET shorter == StringsUpTo(cs, n - 1)
         IN  shorter \cup {Append(s, c) : s \in shorter, c \in cs}

----------------------------------------------------------------------------
(* Field names and aliases *)

FieldNames == {"FIRST_NAME", "first_name", "EMAIL"}

\* fieldName.toUpperCase() on the field names of the model
toUpperCaseName(fieldName) ==
    IF fieldName = "first_name" THEN "FIRST_NAME" ELSE fieldName

\* fieldName.toLowerCase() on the field names of the model
toLowerCaseName(fieldName) ==
    CASE fieldName = "FIRST_NAME" -> "first_name"
      [] fieldName = "EMAIL" -> "email"
      [] fieldName = "NICKNAME" -> "nickname"
      [] OTHER -> fieldName

\* this.fieldMap / FIELD_MAP restricted to the field names of the model
fieldMap == [n \in {"FIRST_NAME", "EMAIL"} |-> IF n = "FIRST_NAME" THEN "fn" ELSE "email"]

\* getFieldAlias(fieldName)
getFieldAlias(fieldName) ==
    IF toUpperCaseName(fieldName) \in DOMAIN fieldMap
    THEN fieldMap[toUpperCaseName(fieldName)]
    ELSE toLowerCaseName(fieldName)

----------------------------------------------------------------------------
(* Keyed hash and index keys *)

\* H(s): HMAC-SHA256 under the process secret, taken as collision-free: the
\* digest of a message is represented by the message itself.
H(s) == <<"hmac", s>>

\* the message `${field}|${fragment}`
Message(field, fragment) == <<field, "|", fragment>>

\* an index key derived without domain separation by field
IndexKeyWithoutField(field, tag, fragment) == <<"idx", "", tag, H(Message("", fragment))>>

\* the key `idx:${field}:${tag}:${H(`${field}|${fragment}`)}`
IndexKey(field, tag, fragment) == <<"idx", field, tag, H(Message(field, fragment))>>

\* the tag `g${k}`
GramTag(k) == IF k = 3 THEN "g3" ELSE "gk"

\* keysFor(field, op, q, k): the keys of a query, in order
keysFor(field, op, q, k) ==
    LET n == normalize(q)
    IN  CASE op = "eq" -> <<IndexKey(field, "eq", n)>>
          [] op = "startsWith" -> <<IndexKey(field, "pre", n)>>
          [] op = "endsWith" -> <<IndexKey(field, "suf", reverse(n))>>
          [] OTHER ->
                IF Len(n) < k THEN <<>>
                ELSE [i \in 1..(Len(n) - k + 1) |->
                        IndexKey(field, GramTag(k), slice(n, i - 1, i - 1 + k))]

\* generateAllIndexKeys(field, value, k): the keys a value is indexed under, in order
generateAllIndexKeys(field, value, k) ==
    LET n == normalize(value)
        r == reverse(n)
        eqKeys == <<IndexKey(field, "eq", n)>>
        preKeys == [i \in 1..Len(n) |-> IndexKey(field, "pre", slice(n, 0, i))]
        sufKeys == [i \in 1..Len(r) |-> IndexKey(field, "suf", slice(r, 0, i))]
        gramKeys == IF Len(n) >= k
                    THEN [i \in 1..(Len(n) - k + 1) |->
                            IndexKey(field, GramTag(k), slice(n, i - 1, i - 1 + k))]
                    ELSE <<>>
    IN  eqKeys \o preKeys \o sufKeys \o gramKeys

Range(seq) == {seq[i] : i \in 1..Len(seq)}

----------------------------------------------------------------------------
(* Inputs *)

\* opaque tokens handed to the indexers by their callers
Tokens == {<<"t", "1">>, <<"t", "1", "0">>, <<"t", "_">>}

\* field values handed to the indexers: " AB ", "abab", the full-width "ａ"
\* followed by "bb", and a blank value
Values ==
    { <<" ", "A", "B", " ">>, <<"a", "b", "a", "b">>, <<"fa", "b", "b">>, <<" ">> }

\* field names the values are indexed under
IndexFields == {"FIRST_NAME", "EMAIL"}

\* normalized queries up to the bound
Queries == StringsUpTo({"a", "b"}, MaxQLen)

\* this.validOps / VALID_OPS
VALID_OPS == {"eq", "startsWith", "endsWith", "contains"}

----------------------------------------------------------------------------
(* In-memory set store (Redis) *)

EmptyMap == [key \in {} |-> {}]

\* SADD key token
sAdd(store, key, token) ==
    IF key \in DOMAIN store
    THEN [store EXCEPT ![key] = @ \cup {token}]
    ELSE (key :> {token}) @@ store

\* SMEMBERS key
sMembers(store, key) == IF key \in DOMAIN store THEN store[key] ELSE {}

\* SINTER keys
sInter(store, keys) ==
    {t \in sMembers(store, keys[1]) : \A i \in 1..Len(keys) : t \in sMembers(store, keys[i])}

\* the MULTI ... EXEC block of indexFieldValue: token added to every key
RECURSIVE sAddAll(_, _, _)
sAddAll(store, keys, token) ==
    IF keys = <<>> THEN store
    ELSE sAddAll(sAdd(store, Head(keys), token), Tail(keys), token)

\* FieldAwareRedisIndexer.indexFieldValue: the store after the call
RedisIndexFieldValue(store, fieldName, value, token) ==
    sAddAll(store, generateAllIndexKeys(getFieldAlias(fieldName), value, K), token)

\* FieldAwareRedisIndexer.search
RedisSearch(store, fieldName, op, query) ==
    LET keys == keysFor(getFieldAlias(fieldName), op, query, K)
    IN  IF Len(keys) = 0 THEN {}
        ELSE IF Len(keys) = 1 THEN sMembers(store, keys[1])
        ELSE sInter(store, keys)

----------------------------------------------------------------------------
(* Relational store (pii_search_index) *)

\* a comparison of the whole token_set with the token
LikeWhole(tokenSet, token) == tokenSet = token

\* token_set LIKE '%' || token || '%': "_" in the pattern matches any one character
Like(tokenSet, token) ==
    \E off \in 0..(Len(tokenSet) - Len(token)) :
        \A j \in 1..Len(token) : token[j] = "_" \/ token[j] = tokenSet[off + j]

\* string_to_array(token_set, ',')
RECURSIVE string_to_array(_)
string_to_array(s) ==
    IF \A i \in 1..Len(s) : s[i] # ","
    THEN <<s>>
    ELSE LET c == CHOOSE i \in 1..Len(s) : s[i] = "," /\ \A j \in 1..(i - 1) : s[j] # ","
         IN  <<SubSeq(s, 1, c - 1)>> \o string_to_array(SubSeq(s, c + 1, Len(s)))

\* the default of the parameter retentionDate of addTokenToIndex; a date d that
\* is given is {d}
null == {}

\* retentionDate || new Date(Date.now() + 365 * 24 * 60 * 60 * 1000)
retentionOr(retentionDate, clock) ==
    IF retentionDate = null THEN clock + RETENTION
    ELSE CHOOSE d \in retentionDate : TRUE

\* an upsert whose update sets retention_until to the new date
addTokenToIndexOverwriting(rows, hmacKey, opaqueToken, fieldType, retentionDate, clock) ==
    LET retention == retentionOr(retentionDate, clock)
    IN  IF hmacKey \notin DOMAIN rows
        THEN (hmacKey :> [token_set |-> opaqueToken, field_type |-> fieldType,
                          created_at |-> clock, retention_until |-> retention]) @@ rows
        ELSE [rows EXCEPT ![hmacKey] =
                [@ EXCEPT !.token_set =
                              IF Like(@, opaqueToken) THEN @ ELSE @ \o <<",">> \o opaqueToken,
                          !.retention_until = retention]]

\* addTokenToIndex: INSERT ... ON CONFLICT (hmac_key) DO UPDATE
addTokenToIndex(rows, hmacKey, opaqueToken, fieldType, retentionDate, clock) ==
    LET retention == retentionOr(retentionDate, clock)
    IN  IF hmacKey \notin DOMAIN rows
        THEN (hmacKey :> [token_set |-> opaqueToken, field_type |-> fieldType,
                          created_at |-> clock, retention_until |-> retention]) @@ rows
        ELSE [rows EXCEPT ![hmacKey] =
                [@ EXCEPT !.token_set =
                              IF Like(@, opaqueToken) THEN @ ELSE @ \o <<",">> \o opaqueToken,
                          !.retention_until = Max(@, retention)]]

\* the BEGIN ... COMMIT block of indexFieldValue: one addTokenToIndex per key
RECURSIVE addTokenToAll(_, _, _, _, _)
addTokenToAll(rows, keys, token, fieldName, clock) ==
    IF keys = <<>> THEN rows
    ELSE addTokenToAll(addTokenToIndex(rows, Head(keys), token, fieldName, null, clock),
                       Tail(keys), token, fieldName, clock)

\* PIIDatabaseSearchIndexer.indexFieldValue: the table after COMMIT
DbIndexFieldValue(rows, fieldName, value, token, clock) ==
    addTokenToAll(rows, generateAllIndexKeys(getFieldAlias(fieldName), value, K),
                  token, fieldName, clock)

\* searchTokensInIndex(keys): the tokens of the unexpired rows among keys
searchTokensInIndex(rows, keys, clock) ==
    LET hit == {k \in Range(keys) : k \in DOMAIN rows /\ rows[k].retention_until > clock}
        unnested == UNION {Range(string_to_array(rows[k].token_set)) : k \in hit}
    IN  {trim(t) : t \in unnested} \ {<<>>}

\* PIIDatabaseSearchAPI.search
DbSearch(rows, clock, fieldName, op, query) ==
    LET keys == keysFor(getFieldAlias(fieldName), op, query, K)
    IN  IF Len(keys) = 0 THEN {}
        ELSE IF Len(keys) = 1 THEN searchTokensInIndex(rows, keys, clock)
        ELSE {t \in searchTokensInIndex(rows, <<keys[1]>>, clock) :
                \A i \in 2..Len(keys) : t \in searchTokensInIndex(rows, <<keys[i]>>, clock)}

\* search_tokens_by_keys(hmac_keys) of the schema script
search_tokens_by_keys(rows, keys, clock) ==
    LET hit == {k \in Range(keys) : /\ k \in DOMAIN rows
                                    /\ rows[k].retention_until > clock
                                    /\ rows[k].token_set # <<>>}
    IN  UNION {Range(string_to_array(rows[k].token_set)) : k \in hit}

\* search_tokens_intersection(hmac_keys) of the schema script: key_matches is
\* COUNT(*) over the unnested tokens of the rows selected by hmac_key = ANY(hmac_keys)
search_tokens_intersection(rows, hmac_keys, clock) ==
    LET key_count == Len(hmac_keys)
        hit == {k \in Range(hmac_keys) : /\ k \in DOMAIN rows
                                         /\ rows[k].retention_until > clock
                                         /\ rows[k].token_set # <<>>}
        unnested == UNION {{<<k, i>> : i \in 1..Len(string_to_array(rows[k].token_set))} :
                           k \in hit}
        tokenOf(p) == string_to_array(rows[p[1]].token_set)[p[2]]
        key_matches(t) == Cardinality({p \in unnested : tokenOf(p) = t})
    IN  IF key_count = 0 THEN {}
        ELSE IF key_count = 1 THEN search_tokens_by_keys(rows, hmac_keys, clock)
        ELSE {t \in {tokenOf(p) : p \in unnested} : key_matches(t) = key_count}

\* DELETE FROM pii_search_index WHERE retention_until < NOW()
ExpiredKeys(rows, clock) == {k \in DOMAIN rows : rows[k].retention_until < clock}

----------------------------------------------------------------------------
(* High-level search of the relational API and Boolean composition *)

\* config.search.minQueryLength: parseInt(process.env.MIN_QUERY_LENGTH) || 2
MIN_QUERY_LENGTH == 2

\* query types handed to performSearch
QueryTypes == {"exact", "starts_with", "ends_with", "contains", "fuzzy"}

\* the switch of performSearch on queryType.toLowerCase()
QueryOperation(queryType) ==
    CASE queryType \in {"exact", "equals"} -> "eq"
      [] queryType \in {"starts_with", "startswith"} -> "startsWith"
      [] queryType \in {"ends_with", "endswith"} -> "endsWith"
      [] OTHER -> "contains"

\* a gate that also suppresses results of exactly kMin refs
anonymizedTokensAbove(tokens, kMin) == IF Cardinality(tokens) > kMin THEN tokens ELSE {}

\* resultCount >= config.search.minResultSize ? tokens : []
anonymizedTokens(tokens, kMin) == IF Cardinality(tokens) >= kMin THEN tokens ELSE {}

\* PIIDatabaseSearchAPI.performSearch: the response object, or the error thrown
performSearch(rows, clock, kMin, query, fieldType, queryType) ==
    IF query = <<>> \/ Len(query) < MIN_QUERY_LENGTH
    THEN [op |-> "performSearch", error |-> "Query must be at least 2 characters long"]
    ELSE LET tokens == DbSearch(rows, clock, fieldType, QueryOperation(queryType), query)
             resultCount == Cardinality(tokens)
             anonymized == anonymizedTokens(tokens, kMin)
         IN  [op |-> "performSearch", error |-> "",
              query |-> query, fieldType |-> fieldType, queryType |-> queryType,
              tokens |-> anonymized, resultCount |-> resultCount,
              anonymizedCount |-> Cardinality(anonymized),
              kAnonymityApplied |-> (resultCount > 0 /\ Cardinality(anonymized) = 0)]

\* operation names handed to executeComplexQuery
ComplexOperations ==
    {"equals", "startsWith", "starts_with", "endsWith", "ends_with", "contains"}

\* operation.toLowerCase() on the operation names of the model
toLowerCaseOperation(operation) ==
    CASE operation = "startsWith" -> "startswith"
      [] operation = "endsWith" -> "endswith"
      [] OTHER -> operation

\* the switch of PIIDatabaseSearchAPI.executeComplexQuery: "" is the default branch
DbConditionOp(operation) ==
    CASE toLowerCaseOperation(operation) = "equals" -> "eq"
      [] toLowerCaseOperation(operation) = "startswith" -> "startsWith"
      [] toLowerCaseOperation(operation) = "endswith" -> "endsWith"
      [] toLowerCaseOperation(operation) = "contains" -> "contains"
      [] OTHER -> ""

\* the switch of FieldAwareRedisIndexer.executeComplexQuery: "" is the default branch
RedisConditionOp(operation) ==
    CASE toLowerCaseOperation(operation) = "equals" -> "eq"
      [] toLowerCaseOperation(operation) = "starts_with" -> "startsWith"
      [] toLowerCaseOperation(operation) = "ends_with" -> "endsWith"
      [] toLowerCaseOperation(operation) = "contains" -> "contains"
      [] OTHER -> ""

\* a fold that intersects whatever the operator is
foldIntersecting(finalResult, resultSets, operator) ==
    IF resultSets = <<>> THEN finalResult
    ELSE finalResult \cap Head(resultSets)

\* the loop "Apply AND/OR logic" over the result sets, from resultSets[1] on
RECURSIVE fold(_, _, _)
fold(finalResult, resultSets, operator) ==
    IF resultSets = <<>> THEN finalResult
    ELSE fold(CASE operator = "AND" -> finalResult \cap Head(resultSets)
                [] operator = "OR" -> finalResult \cup Head(resultSets)
                [] OTHER -> finalResult,
              Tail(resultSets), operator)

\* PIIDatabaseSearchAPI.executeComplexQuery: the array returned, or the error thrown
DbExecuteComplexQuery(rows, clock, queryConditions, operator) ==
    IF \E i \in 1..Len(queryConditions) : DbConditionOp(queryConditions[i].operation) = ""
    THEN [op |-> "executeComplexQuery", backend |-> "db", error |-> "Unsupported operation"]
    ELSE LET resultSets ==
                 [i \in 1..Len(queryConditions) |->
                    DbSearch(rows, clock, queryConditions[i].field,
                             DbConditionOp(queryConditions[i].operation),
                             queryConditions[i].value)]
         IN  [op |-> "executeComplexQuery", backend |-> "db", error |-> "",
              tokens |-> IF Len(resultSets) = 0 THEN {}
                         ELSE fold(Head(resultSets), Tail(resultSets), operator)]

\* FieldAwareRedisIndexer.executeComplexQuery: the array returned, or the error thrown
RedisExecuteComplexQuery(store, queryConditions, operator) ==
    IF \E i \in 1..Len(queryConditions) : RedisConditionOp(queryConditions[i].operation) = ""
    THEN [op |-> "executeComplexQuery", backend |-> "redis", error |-> "Unsupported operation"]
    ELSE LET resultSets ==
                 [i \in 1..Len(queryConditions) |->
                    RedisSearch(store, queryConditions[i].field,
                                RedisConditionOp(queryConditions[i].operation),
                                queryConditions[i].value)]
         IN  [op |-> "executeComplexQuery", backend |-> "redis", error |-> "",
              tokens |-> IF Len(resultSets) = 0 THEN {}
                         ELSE fold(Head(resultSets), Tail(resultSets), operator)]

----------------------------------------------------------------------------
(* State machine *)

NoResponse == [op |-> "none"]

\* callers that use the same PIIDatabaseSearchIndexer instance at the same time
Callers == {1, 2}

\* no indexFieldValue call has been made
NoCalls == [c \in Callers |-> [pc |-> "idle"]]

\* this.dbClient right after connect(): no transaction block is open
NoTransaction == [inTransaction |-> FALSE, aborted |-> FALSE, rows |-> EmptyMap]

\* no search is in flight
NoLookups == [pc |-> "idle"]

\* history of a search in flight: what its predicate evaluates to on the table
\* as it is at this instant is added to the evaluations seen so far
Sample(l, rows, clock) ==
    IF l.pc = "scan"
    THEN [l EXCEPT !.snapshots = @ \cup {DbSearch(rows, clock, l.fieldName, l.op, l.query)}]
    ELSE l

\* config.search.minResultSize: parseInt(process.env.MIN_RESULT_SIZE) || 5
DEFAULT_MIN_RESULT_SIZE == 5

Init ==
    /\ redis = EmptyMap
    /\ db = EmptyMap
    /\ now = 0
    /\ minResultSize = DEFAULT_MIN_RESULT_SIZE
    /\ indexed = {}
    /\ ops = 0
    /\ response = NoResponse
    /\ calls = NoCalls
    /\ session = NoTransaction
    /\ lookups = NoLookups

\* One value presented to both indexers: FieldAwareRedisIndexer.indexFieldValue
\* and PIIDatabaseSearchIndexer.indexFieldValue with the same arguments.
IndexFieldValue(fieldName, value, token) ==
    /\ ops < MaxOps
    /\ redis' = RedisIndexFieldValue(redis, fieldName, value, token)
    /\ db' = DbIndexFieldValue(db, fieldName, value, token, now)
    /\ indexed' = indexed \cup {[fieldName |-> fieldName, value |-> value, token |-> token]}
    /\ ops' = ops + 1
    /\ response' = [op |-> "indexFieldValue", field |-> fieldName,
                    alias |-> getFieldAlias(fieldName),
                    indexed |-> Len(generateAllIndexKeys(getFieldAlias(fieldName), value, K))]
    /\ lookups' = Sample(lookups, db', now)
    /\ UNCHANGED <<now, minResultSize, calls, session>>

\* FieldAwareRedisIndexer.removeFieldValue: this.generateFieldKeys is not a
\* function, so the call throws before any SREM is queued; the error is logged
\* and thrown again.
RemoveFieldValue(fieldName, value, token) ==
    /\ response' = [op |-> "removeFieldValue", fieldName |-> fieldName, value |-> value,
                    token |-> token, error |-> "TypeError"]
    /\ UNCHANGED <<redis, db, now, minResultSize, indexed, ops, calls, session, lookups>>

\* FieldAwareRedisIndexer.search as a request
RedisSearchStep(fieldName, op, query) ==
    /\ response' = [op |-> "search", backend |-> "redis",
                    tokens |-> RedisSearch(redis, fieldName, op, query)]
    /\ UNCHANGED <<redis, db, now, minResultSize, indexed, ops, calls, session, lookups>>

\* PIIDatabaseSearchAPI.search as a request
DbSearchStep(fieldName, op, query) ==
    /\ response' = [op |-> "search", backend |-> "db",
                    tokens |-> DbSearch(db, now, fieldName, op, query)]
    /\ UNCHANGED <<redis, db, now, minResultSize, indexed, ops, calls, session, lookups>>

\* PIIDatabaseSearchIndexer.cleanupExpiredEntries
CleanupExpiredEntries ==
    /\ db' = [k \in DOMAIN db \ ExpiredKeys(db, now) |-> db[k]]
    /\ response' = [op |-> "cleanupExpiredEntries",
                    rowCount |-> Cardinality(ExpiredKeys(db, now))]
    /\ lookups' = Sample(lookups, db', now)
    /\ UNCHANGED <<redis, now, minResultSize, indexed, ops, calls, session>>

\* gdpr_cleanup_search_index(): the row it returns, without cleanup_timestamp
GdprCleanupSearchIndex ==
    /\ db' = [k \in DOMAIN db \ ExpiredKeys(db, now) |-> db[k]]
    /\ response' = [op |-> "gdpr_cleanup_search_index",
                    deleted_count |-> Cardinality(ExpiredKeys(db, now)),
                    affected_field_types |->
                        {db[k].field_type : k \in ExpiredKeys(db, now)}]
    /\ lookups' = Sample(lookups, db', now)
    /\ UNCHANGED <<redis, now, minResultSize, indexed, ops, calls, session>>

\* the clock advances by one retention period
Tick ==
    /\ now < MaxTime
    /\ now' = now + 1
    /\ response' = NoResponse
    /\ lookups' = Sample(lookups, db, now')
    /\ UNCHANGED <<redis, db, minResultSize, indexed, ops, calls, session>>

\* queries sent as requests
SearchQueries == {<<"a">>, <<" ", "A", "b">>, <<"b", "a", "b">>, <<"a", "b", "a", "b">>, <<>>}

Index == \E f \in IndexFields, v \in Values, t \in Tokens : IndexFieldValue(f, v, t)

\* erasure requests name a value that was ingested
Remove == \E r \in indexed : RemoveFieldValue(r.fieldName, r.value, r.token)

SearchRedis ==
    \E f \in FieldNames, op \in VALID_OPS, q \in SearchQueries : RedisSearchStep(f, op, q)

SearchDb ==
    \E f \in FieldNames, op \in VALID_OPS, q \in SearchQueries : DbSearchStep(f, op, q)

Next ==
    \/ Index
    \/ Remove
    \/ SearchRedis
    \/ SearchDb

Spec == Init /\ [][Next]_vars

----------------------------------------------------------------------------
(* Retention: ingestion, the clock, the sweep and searches of the table *)

RetentionValues == {<<" ", "A", "B", " ">>, <<"a", "b", "a", "b">>}

IndexRetained ==
    \E v \in RetentionValues, t \in Tokens : IndexFieldValue("EMAIL", v, t)

NextRetention ==
    \/ IndexRetained
    \/ Tick
    \/ CleanupExpiredEntries
    \/ GdprCleanupSearchIndex
    \/ SearchDb

SpecRetention == Init /\ [][NextRetention]_vars

----------------------------------------------------------------------------
(* k-anonymity: ingestion, performSearch and executeComplexQuery *)

InitGate ==
    /\ redis = EmptyMap
    /\ db = EmptyMap
    /\ now = 0
    /\ minResultSize \in 1..MaxMinResult
    /\ indexed = {}
    /\ ops = 0
    /\ response = NoResponse
    /\ calls = NoCalls
    /\ session = NoTransaction
    /\ lookups = NoLookups

GateValues == {<<" ", "A", "B", " ">>, <<"a", "b", "a", "b">>}

GateQueries == {<<>>, <<"a">>, <<"A", "b">>, <<"a", "b", "a">>, <<"b", "a", "b">>}

\* conditions of a complex query
Conditions ==
    [field : {"EMAIL"}, operation : ComplexOperations,
     value : {<<"a", "b">>}]

ConditionLists ==
    {<<c>> : c \in Conditions} \cup {<<c1, c2>> : c1 \in Conditions, c2 \in Conditions}

IndexGate ==
    \E v \in GateValues, t \in Tokens : IndexFieldValue("EMAIL", v, t)

\* PIIDatabaseSearchAPI.performSearch as a request
PerformSearch ==
    \E q \in GateQueries, f \in IndexFields, qt \in QueryTypes :
        /\ response' = performSearch(db, now, minResultSize, q, f, qt)
        /\ UNCHANGED <<redis, db, now, minResultSize, indexed, ops, calls, session, lookups>>

\* PIIDatabaseSearchAPI.executeComplexQuery as a request
ComplexDb ==
    \E cs \in ConditionLists, operator \in {"AND", "OR"} :
        /\ response' = DbExecuteComplexQuery(db, now, cs, operator)
        /\ UNCHANGED <<redis, db, now, minResultSize, indexed, ops, calls, session, lookups>>

\* FieldAwareRedisIndexer.executeComplexQuery as a request
ComplexRedis ==
    \E cs \in ConditionLists, operator \in {"AND", "OR"} :
        /\ response' = RedisExecuteComplexQuery(redis, cs, operator)
        /\ UNCHANGED <<redis, db, now, minResultSize, indexed, ops, calls, session, lookups>>

NextGate ==
    \/ IndexGate
    \/ PerformSearch
    \/ ComplexDb
    \/ ComplexRedis

SpecGate == InitGate /\ [][NextGate]_vars

----------------------------------------------------------------------------
(* Concurrent indexFieldValue calls on one PIIDatabaseSearchIndexer: every    *)
(* statement of every call goes through the one connection this.dbClient, in  *)
(* the order the calls issue them.  Searches read the committed table through *)
(* the connection of PIIDatabaseSearchAPI.                                    *)

\* the fresh ref each caller indexes
CallToken(c) == IF c = 1 THEN <<"t", "1">> ELSE <<"t", "0">>

\* values the callers index: " AB " and the full-width "ａ" followed by "bb"
CallValues == {<<" ", "A", "B", " ">>, <<"fa", "b", "b">>}

\* indexFieldValue entered: field alias and keys computed, BEGIN not yet sent
CallIndexFieldValue(c, value) ==
    /\ calls[c].pc = "idle"
    /\ calls' = [calls EXCEPT ![c] =
                    [pc |-> "begin", fieldName |-> "EMAIL", value |-> value,
                     token |-> CallToken(c),
                     keys |-> generateAllIndexKeys(getFieldAlias("EMAIL"), value, K),
                     i |-> 1]]
    /\ response' = NoResponse
    /\ UNCHANGED <<redis, db, now, minResultSize, indexed, ops, session, lookups>>

\* await this.dbClient.query('BEGIN'): opens a transaction block, is a warning
\* inside an open block, and an error inside an aborted one (the outer catch
\* then throws without ROLLBACK)
Begin(c) ==
    /\ calls[c].pc = "begin"
    /\ IF session.inTransaction /\ session.aborted
       THEN /\ calls' = [calls EXCEPT ![c].pc = "failed"]
            /\ session' = session
       ELSE /\ calls' = [calls EXCEPT ![c].pc = IF calls[c].keys = <<>> THEN "commit" ELSE "add"]
            /\ session' = IF session.inTransaction THEN session
                          ELSE [inTransaction |-> TRUE, aborted |-> FALSE, rows |-> db]
    /\ response' = NoResponse
    /\ UNCHANGED <<redis, db, now, minResultSize, indexed, ops, lookups>>

\* await this.addTokenToIndex(key, token, fieldName): in the open block the
\* write stays uncommitted, outside a block it is committed at once, in an
\* aborted block the statement is an error and the call goes to its catch
AddToken(c) ==
    /\ calls[c].pc = "add"
    /\ LET key == calls[c].keys[calls[c].i]
           next == [calls EXCEPT ![c].i = @ + 1,
                                 ![c].pc = IF calls[c].i = Len(calls[c].keys)
                                           THEN "commit" ELSE "add"]
       IN  IF session.inTransaction /\ session.aborted
           THEN /\ calls' = [calls EXCEPT ![c].pc = "rollback"]
                /\ UNCHANGED <<session, db>>
           ELSE IF session.inTransaction
           THEN /\ session' = [session EXCEPT !.rows =
                                  addTokenToIndex(@, key, calls[c].token,
                                                  calls[c].fieldName, null, now)]
                /\ calls' = next
                /\ db' = db
           ELSE /\ db' = addTokenToIndex(db, key, calls[c].token, calls[c].fieldName,
                                           null, now)
                /\ calls' = next
                /\ session' = session
    /\ response' = NoResponse
    /\ UNCHANGED <<redis, now, minResultSize, indexed, ops, lookups>>

\* addTokenToIndex rejects (statement error): an open block becomes aborted
AddTokenFails(c) ==
    /\ calls[c].pc = "add"
    /\ calls' = [calls EXCEPT ![c].pc = "rollback"]
    /\ session' = IF session.inTransaction THEN [session EXCEPT !.aborted = TRUE] ELSE session
    /\ response' = NoResponse
    /\ UNCHANGED <<redis, db, now, minResultSize, indexed, ops, lookups>>

\* await this.dbClient.query('COMMIT'): commits the open block (rolls an
\* aborted one back), is a warning outside a block; the call then returns
Commit(c) ==
    /\ calls[c].pc = "commit"
    /\ db' = IF session.inTransaction /\ ~session.aborted THEN session.rows ELSE db
    /\ session' = NoTransaction
    /\ calls' = [calls EXCEPT ![c].pc = "done"]
    /\ indexed' = indexed \cup {[fieldName |-> calls[c].fieldName, value |-> calls[c].value,
                                 token |-> calls[c].token]}
    /\ response' = [op |-> "indexFieldValue", field |-> calls[c].fieldName,
                    alias |-> getFieldAlias(calls[c].fieldName),
                    indexed |-> Len(calls[c].keys)]
    /\ UNCHANGED <<redis, now, minResultSize, ops, lookups>>

\* await this.dbClient.query('ROLLBACK') in the catch, then throw
Rollback(c) ==
    /\ calls[c].pc = "rollback"
    /\ session' = NoTransaction
    /\ calls' = [calls EXCEPT ![c].pc = "failed"]
    /\ response' = [op |-> "indexFieldValue", error |-> "Failed to index"]
    /\ UNCHANGED <<redis, db, now, minResultSize, indexed, ops, lookups>>

\* the ref and the value the set store is given
RedisCallToken == <<"t", "2">>

RedisCallValue == <<" ", "A", "B", " ">>

\* FieldAwareRedisIndexer.indexFieldValue: pipe.exec() resolves, MULTI ... EXEC
\* has applied every SADD of the value in one step
RedisExec(value) ==
    /\ redis' = RedisIndexFieldValue(redis, "EMAIL", value, RedisCallToken)
    /\ redis' # redis
    /\ response' = [op |-> "indexFieldValue", field |-> "EMAIL",
                    alias |-> getFieldAlias("EMAIL"),
                    indexed |-> Len(generateAllIndexKeys(getFieldAlias("EMAIL"), value, K))]
    /\ UNCHANGED <<db, now, minResultSize, indexed, ops, calls, session, lookups>>

\* FieldAwareRedisIndexer.indexFieldValue: pipe.exec() rejects, nothing was executed
RedisExecFails ==
    /\ response' = [op |-> "indexFieldValue", backend |-> "redis", error |-> "Failed to index"]
    /\ UNCHANGED <<redis, db, now, minResultSize, indexed, ops, calls, session, lookups>>

\* searches that observe the indexes while the calls run
Observe ==
    \E op \in {"eq", "startsWith"} :
        \/ DbSearchStep("EMAIL", op, <<"a", "b">>)
        \/ RedisSearchStep("EMAIL", op, <<"a", "b">>)

NextConcurrent ==
    \/ \E c \in Callers, v \in CallValues : CallIndexFieldValue(c, v)
    \/ \E c \in Callers : Begin(c)
    \/ \E c \in Callers : AddToken(c)
    \/ \E c \in Callers : AddTokenFails(c)
    \/ \E c \in Callers : Commit(c)
    \/ \E c \in Callers : Rollback(c)
    \/ RedisExec(RedisCallValue)
    \/ RedisExecFails
    \/ Observe

SpecConcurrent == Init /\ [][NextConcurrent]_vars

----------------------------------------------------------------------------
(* A multi-key search of PIIDatabaseSearchAPI, one query per key, while the   *)
(* table is written, swept and the clock advances                             *)

\* values with one 3-gram each
SnapshotValues == {<<"a", "b", "a">>, <<"b", "a", "b">>}

\* the intersection loop over tokenSets
RECURSIVE intersection(_)
intersection(tokenSets) ==
    IF Len(tokenSets) = 1 THEN tokenSets[1]
    ELSE intersection(SubSeq(tokenSets, 1, Len(tokenSets) - 1)) \cap tokenSets[Len(tokenSets)]

\* search(fieldName, op, query) entered with more than one key: nothing looked up yet
StartSearch(fieldName, op, query) ==
    /\ lookups.pc \in {"idle", "done"}
    /\ Len(keysFor(getFieldAlias(fieldName), op, query, K)) > 1
    /\ lookups' = [pc |-> "scan", fieldName |-> fieldName, op |-> op, query |-> query,
                   keys |-> keysFor(getFieldAlias(fieldName), op, query, K),
                   tokenSets |-> <<>>,
                   snapshots |-> {DbSearch(db, now, fieldName, op, query)}]
    /\ response' = NoResponse
    /\ UNCHANGED <<redis, db, now, minResultSize, indexed, ops, calls, session>>

\* await this.searchTokensInIndex([key]) for the next key; after the last key
\* the intersection is computed and returned
LookupKey ==
    /\ lookups.pc = "scan"
    /\ LET key == lookups.keys[Len(lookups.tokenSets) + 1]
           tokenSets == Append(lookups.tokenSets, searchTokensInIndex(db, <<key>>, now))
       IN  IF Len(tokenSets) < Len(lookups.keys)
           THEN /\ lookups' = [lookups EXCEPT !.tokenSets = tokenSets]
                /\ response' = NoResponse
           ELSE /\ lookups' = [lookups EXCEPT !.tokenSets = tokenSets, !.pc = "done"]
                /\ response' = [op |-> "search", backend |-> "db",
                                tokens |-> intersection(tokenSets)]
    /\ UNCHANGED <<redis, db, now, minResultSize, indexed, ops, calls, session>>

NextSnapshot ==
    \/ \E v \in SnapshotValues : IndexFieldValue("EMAIL", v, <<"t", "1">>)
    \/ Tick
    \/ CleanupExpiredEntries
    \/ StartSearch("EMAIL", "contains", <<"a", "b", "a", "b">>)
    \/ LookupKey
    \/ RedisSearchStep("EMAIL", "contains", <<"a", "b", "a", "b">>)

SpecSnapshot == Init /\ [][NextSnapshot]_vars

----------------------------------------------------------------------------
(* Requests with field names and operators the index does not know *)

\* field names of requests: two of the field map, one in lower case, one unknown
RequestFields == {"EMAIL", "first_name", "NICKNAME"}

\* operators of requests: the four valid ones and an unknown one
RequestOps == VALID_OPS \cup {"matches"}

RequestQueries == {<<"a", "b">>, <<"a", "b", "a", "b">>}

\* FieldAwareRedisIndexer.search as a request, with the request and the number
\* of keys looked up noted next to what is returned
RedisSearchRequest(fieldName, op, query) ==
    /\ response' = [op |-> "search", backend |-> "redis",
                    fieldName |-> fieldName, operator |-> op,
                    lookedUp |-> Len(keysFor(getFieldAlias(fieldName), op, query, K)),
                    tokens |-> RedisSearch(redis, fieldName, op, query)]
    /\ UNCHANGED <<redis, db, now, minResultSize, indexed, ops, calls, session, lookups>>

\* PIIDatabaseSearchAPI.search as a request, noted likewise
DbSearchRequest(fieldName, op, query) ==
    /\ response' = [op |-> "search", backend |-> "db",
                    fieldName |-> fieldName, operator |-> op,
                    lookedUp |-> Len(keysFor(getFieldAlias(fieldName), op, query, K)),
                    tokens |-> DbSearch(db, now, fieldName, op, query)]
    /\ UNCHANGED <<redis, db, now, minResultSize, indexed, ops, calls, session, lookups>>

NextRequests ==
    \/ \E f \in {"EMAIL", "NICKNAME"}, t \in {<<"t", "1">>, <<"t", "1", "0">>} :
          IndexFieldValue(f, <<"a", "b", "a", "b">>, t)
    \/ \E f \in RequestFields, op \in RequestOps, q \in RequestQueries :
          RedisSearchRequest(f, op, q)
    \/ \E f \in RequestFields, op \in RequestOps, q \in RequestQueries :
          DbSearchRequest(f, op, q)

SpecRequests == Init /\ [][NextRequests]_vars

----------------------------------------------------------------------------
(* executeComplexQuery on conditions that evaluate to different sets *)

ComplexValues == {<<"a", "b", "a", "b">>, <<" ", "A", "B", " ">>}

\* conditions in the spelling each executeComplexQuery accepts
ComplexConditions(startsWith) ==
    {[field |-> "EMAIL", operation |-> "equals", value |-> <<"a", "b">>],
     [field |-> "EMAIL", operation |-> startsWith, value |-> <<"a", "b">>],
     [field |-> "EMAIL", operation |-> "contains", value |-> <<"b", "a", "b">>]}

ComplexConditionLists(C) ==
    {<<c>> : c \in C}
        \cup {<<c1, c2>> : c1 \in C, c2 \in C}
        \cup {<<c1, c2, c3>> : c1 \in C, c2 \in C, c3 \in C}

\* PIIDatabaseSearchAPI.executeComplexQuery as a request, with its arguments
ComplexDbRequest ==
    \E cs \in ComplexConditionLists(ComplexConditions("startsWith")),
       operator \in {"AND", "OR"} :
        /\ response' = [conditions |-> cs, operator |-> operator]
                          @@ DbExecuteComplexQuery(db, now, cs, operator)
        /\ UNCHANGED <<redis, db, now, minResultSize, indexed, ops, calls, session, lookups>>

\* FieldAwareRedisIndexer.executeComplexQuery as a request, with its arguments
ComplexRedisRequest ==
    \E cs \in ComplexConditionLists(ComplexConditions("starts_with")),
       operator \in {"AND", "OR"} :
        /\ response' = [conditions |-> cs, operator |-> operator]
                          @@ RedisExecuteComplexQuery(redis, cs, operator)
        /\ UNCHANGED <<redis, db, now, minResultSize, indexed, ops, calls, session, lookups>>

NextComplex ==
    \/ \E v \in ComplexValues, t \in {<<"t", "1">>, <<"t", "1", "0">>} :
           IndexFieldValue("EMAIL", v, t)
    \/ ComplexDbRequest
    \/ ComplexRedisRequest

SpecComplex == Init /\ [][NextComplex]_vars

----------------------------------------------------------------------------
(* addTokenToIndex called on its own, with and without a retention date *)

AddKeys == {IndexKey("fn", "eq", <<"a", "b">>), IndexKey("fn", "pre", <<"a">>)}

AddFieldTypes == {"FIRST_NAME", "first_name"}

AddTokens == {<<"t", "1">>, <<"t", "1", "0">>}

RetentionDates == {null, {1}, {MaxTime + 1}}

\* PIIDatabaseSearchIndexer.addTokenToIndex as a request
AddTokenToIndex(hmacKey, opaqueToken, fieldType, retentionDate) ==
    /\ db' = addTokenToIndex(db, hmacKey, opaqueToken, fieldType, retentionDate, now)
    /\ response' = [op |-> "addTokenToIndex", hmacKey |-> hmacKey,
                    opaqueToken |-> opaqueToken, fieldType |-> fieldType,
                    retention |-> retentionOr(retentionDate, now)]
    /\ lookups' = Sample(lookups, db', now)
    /\ UNCHANGED <<redis, now, minResultSize, indexed, ops, calls, session>>

NextAdd ==
    \/ \E key \in AddKeys, opaqueToken \in AddTokens, fieldType \in AddFieldTypes,
          retentionDate \in RetentionDates :
           AddTokenToIndex(key, opaqueToken, fieldType, retentionDate)
    \/ Tick
    \/ CleanupExpiredEntries

SpecAdd == Init /\ [][NextAdd]_vars

----------------------------------------------------------------------------
(* search_tokens_intersection called with the key list of a k-gram query *)

IntersectKeys ==
    {IndexKey("fn", GramTag(K), <<"a", "a", "a">>), IndexKey("fn", GramTag(K), <<"a", "a", "b">>)}

\* key lists as keysFor builds them for 'contains': one key per k-gram of the
\* query, repeated when the k-gram is
IntersectKeyLists ==
    {<<k>> : k \in IntersectKeys}
        \cup {<<k1, k2>> : k1 \in IntersectKeys, k2 \in IntersectKeys}
        \cup {<<k1, k2, k3>> : k1 \in IntersectKeys, k2 \in IntersectKeys, k3 \in IntersectKeys}

\* SELECT * FROM search_tokens_intersection(hmac_keys)
SearchTokensIntersection(hmac_keys) ==
    /\ response' = [op |-> "search_tokens_intersection", hmac_keys |-> hmac_keys,
                    tokens |-> search_tokens_intersection(db, hmac_keys, now)]
    /\ UNCHANGED <<redis, db, now, minResultSize, indexed, ops, calls, session, lookups>>

NextIntersect ==
    \/ \E key \in IntersectKeys, opaqueToken \in AddTokens :
           AddTokenToIndex(key, opaqueToken, "FIRST_NAME", null)
    \/ Tick
    \/ \E hmac_keys \in IntersectKeyLists : SearchTokensIntersection(hmac_keys)

SpecIntersect == Init /\ [][NextIntersect]_vars

----------------------------------------------------------------------------
(* RedisHmacIndexer: phrases indexed without a field, and their removal *)

\* norm(s): s.normalize('NFKC').toLowerCase()
norm(s) == toLowerCase(NFKC(s))

\* grams(s, k): the sliding window of width k
grams(s, k) ==
    IF Len(s) < k THEN <<>>
    ELSE [i \in 1..(Len(s) - k + 1) |-> slice(s, i - 1, i - 1 + k)]

\* prefixes(s)
prefixes(s) == [i \in 1..Len(s) |-> slice(s, 0, i)]

\* the key `idx:${tag}:${H(fragment)}`
PhraseKey(tag, fragment) == <<"idx", tag, H(fragment)>>

\* idxKeys(phrase, k)
idxKeys(phrase, k) ==
    LET n == norm(phrase)
        r == reverse(n)
    IN  [eq |-> PhraseKey("eq", n),
         pres |-> [i \in 1..Len(n) |-> PhraseKey("pre", prefixes(n)[i])],
         sufs |-> [i \in 1..Len(r) |-> PhraseKey("suf", prefixes(r)[i])],
         gk |-> [i \in 1..Len(grams(n, k)) |-> PhraseKey(GramTag(k), grams(n, k)[i])]]

\* [eq, ...pres, ...sufs, ...gk]
spread(keys) == <<keys.eq>> \o keys.pres \o keys.sufs \o keys.gk

\* a removal that adds the token to a set that does not hold it
sRemToggling(store, key, token) ==
    IF token \in (IF key \in DOMAIN store THEN store[key] ELSE {})
    THEN [k \in DOMAIN store \ {key} |-> store[k]]
    ELSE (key :> {token}) @@ store

\* SREM key token: a set that becomes empty is removed with its key
sRem(store, key, token) ==
    IF key \notin DOMAIN store THEN store
    ELSE IF store[key] \ {token} = {}
    THEN [k \in DOMAIN store \ {key} |-> store[k]]
    ELSE [store EXCEPT ![key] = @ \ {token}]

\* SCARD key
sCard(store, key) == Cardinality(sMembers(store, key))

\* DEL key
del(store, key) == [k \in DOMAIN store \ {key} |-> store[k]]

\* the MULTI ... EXEC block of removePhraseToken: token removed from every key
RECURSIVE sRemAll(_, _, _)
sRemAll(store, keys, token) ==
    IF keys = <<>> THEN store
    ELSE sRemAll(sRem(store, Head(keys), token), Tail(keys), token)

\* cleanupEmptyKeys(keys) run without interruption
RECURSIVE cleanupEmptyKeys(_, _)
cleanupEmptyKeys(store, keys) ==
    IF keys = <<>> THEN store
    ELSE cleanupEmptyKeys(IF sCard(store, Head(keys)) = 0 THEN del(store, Head(keys))
                          ELSE store,
                          Tail(keys))

\* addPhraseToken(phrase, token): the store after the call
addPhraseToken(store, phrase, token) == sAddAll(store, spread(idxKeys(phrase, K)), token)

\* removePhraseToken(phrase, token): the store after the call
removePhraseToken(store, phrase, token) ==
    cleanupEmptyKeys(sRemAll(store, spread(idxKeys(phrase, K)), token),
                     spread(idxKeys(phrase, K)))

\* addTokenPhrases(token, phrases): the store after the call
RECURSIVE addTokenPhrases(_, _, _)
addTokenPhrases(store, token, phrases) ==
    IF phrases = <<>> THEN store
    ELSE addTokenPhrases(addPhraseToken(store, Head(phrases), token), token, Tail(phrases))

equalsLookup(store, query) == sMembers(store, PhraseKey("eq", norm(query)))

startsWithLookup(store, query) == sMembers(store, PhraseKey("pre", norm(query)))

endsWithLookup(store, query) == sMembers(store, PhraseKey("suf", reverse(norm(query))))

containsLookup(store, query, k) ==
    LET keys == [i \in 1..Len(grams(norm(query), k)) |->
                   PhraseKey(GramTag(k), grams(norm(query), k)[i])]
    IN  IF Len(keys) = 0 THEN {} ELSE sInter(store, keys)

\* phrases handed to the indexer: "abc", "abcd", "ABC"
Phrases == {<<"a", "b", "c">>, <<"a", "b", "c", "d">>, <<"A", "B", "C">>}

PhraseTokens == {<<"t", "1">>, <<"t", "2">>}

\* RedisHmacIndexer.addPhraseToken as a request
AddPhraseToken(phrase, token) ==
    /\ redis' = addPhraseToken(redis, phrase, token)
    /\ indexed' = indexed \cup {[phrase |-> phrase, token |-> token]}
    /\ response' = [op |-> "addPhraseToken", phrase |-> phrase, token |-> token]
    /\ UNCHANGED <<db, now, minResultSize, ops, calls, session, lookups>>

\* RedisHmacIndexer.addTokenPhrases as a request with two phrases
AddTokenPhrases(token, phrases) ==
    /\ redis' = addTokenPhrases(redis, token, phrases)
    /\ indexed' = indexed \cup {[phrase |-> phrases[i], token |-> token] : i \in 1..Len(phrases)}
    /\ response' = [op |-> "addTokenPhrases", phrases |-> phrases, token |-> token]
    /\ UNCHANGED <<db, now, minResultSize, ops, calls, session, lookups>>

\* RedisHmacIndexer.removePhraseToken as a request that nothing interrupts
RemovePhraseToken(phrase, token) ==
    /\ redis' = removePhraseToken(redis, phrase, token)
    /\ indexed' = indexed \ {[phrase |-> phrase, token |-> token]}
    /\ response' = [op |-> "removePhraseToken", phrase |-> phrase, token |-> token]
    /\ UNCHANGED <<db, now, minResultSize, ops, calls, session, lookups>>

NextPhrases ==
    \/ \E phrase \in Phrases, token \in PhraseTokens : AddPhraseToken(phrase, token)
    \/ \E p1 \in Phrases, p2 \in Phrases, token \in PhraseTokens :
           AddTokenPhrases(token, <<p1, p2>>)
    \/ \E phrase \in Phrases, token \in PhraseTokens : RemovePhraseToken(phrase, token)

SpecPhrases == Init /\ [][NextPhrases]_vars

----------------------------------------------------------------------------
(* removePhraseToken step by step, with an addPhraseToken of another caller   *)
(* between its commands.  calls[1] is the removing call, calls[2] the adding  *)
(* one; every MULTI ... EXEC block and every single command is atomic.        *)

ErasePhrases == {<<"a", "b", "c">>, <<"a", "b", "c", "d">>}

\* removePhraseToken(phrase, token) up to the end of its MULTI block
EraseStart(phrase, token) ==
    /\ calls[1].pc = "idle"
    /\ redis' = sRemAll(redis, spread(idxKeys(phrase, K)), token)
    /\ calls' = [calls EXCEPT ![1] = [pc |-> "sCard", phrase |-> phrase, token |-> token,
                                      keys |-> spread(idxKeys(phrase, K)), i |-> 1]]
    /\ indexed' = indexed \ {[phrase |-> phrase, token |-> token]}
    /\ response' = NoResponse
    /\ UNCHANGED <<db, now, minResultSize, ops, session, lookups>>

\* the position of cleanupEmptyKeys after it is done with keys[i]
AfterKey(call) ==
    IF call.i = Len(call.keys)
    THEN [pc |-> "done", phrase |-> call.phrase, token |-> call.token]
    ELSE [call EXCEPT !.i = @ + 1, !.pc = "sCard"]

\* const size = await this.redis.sCard(key)
CleanupCard ==
    /\ calls[1].pc = "sCard"
    /\ calls' = [calls EXCEPT ![1] = IF sCard(redis, calls[1].keys[calls[1].i]) = 0
                                      THEN [@ EXCEPT !.pc = "del"]
                                      ELSE AfterKey(@)]
    /\ UNCHANGED <<redis, db, now, minResultSize, indexed, ops, response, session, lookups>>

\* if (size === 0) await this.redis.del(key)
CleanupDel ==
    /\ calls[1].pc = "del"
    /\ redis' = del(redis, calls[1].keys[calls[1].i])
    /\ calls' = [calls EXCEPT ![1] = AfterKey(@)]
    /\ response' = IF calls'[1].pc = "done"
                   THEN [op |-> "removePhraseToken", phrase |-> calls[1].phrase,
                         token |-> calls[1].token]
                   ELSE response
    /\ UNCHANGED <<db, now, minResultSize, indexed, ops, session, lookups>>

\* addPhraseToken(phrase, token) of the other caller: one MULTI block
ConcurrentAdd(phrase, token) ==
    /\ calls[2].pc = "idle"
    /\ redis' = addPhraseToken(redis, phrase, token)
    /\ calls' = [calls EXCEPT ![2] = [pc |-> "done", phrase |-> phrase, token |-> token]]
    /\ indexed' = indexed \cup {[phrase |-> phrase, token |-> token]}
    /\ response' = [op |-> "addPhraseToken", phrase |-> phrase, token |-> token]
    /\ UNCHANGED <<db, now, minResultSize, ops, session, lookups>>

\* phrases of token t1 indexed before either call starts
SeedPhrase ==
    /\ calls = NoCalls
    /\ \E phrase \in ErasePhrases : AddPhraseToken(phrase, <<"t", "1">>)

NextErase ==
    \/ SeedPhrase
    \/ \E phrase \in ErasePhrases : EraseStart(phrase, <<"t", "1">>)
    \/ CleanupCard
    \/ CleanupDel
    \/ \E phrase \in ErasePhrases : ConcurrentAdd(phrase, <<"t", "2">>)

SpecErase == Init /\ [][NextErase]_vars

----------------------------------------------------------------------------
(* PIISearchIndexer and PIISearchAPI: the boundary-marked trigram index, the  *)
(* rate limiter and the audit log.  All of it lives in the set store: posting *)
(* lists under idx keys, the counter under rate:<clientId>, the log under     *)
(* audit:search.                                                              *)

BOUNDARY_START == "U+0001"

BOUNDARY_END == "U+0002"

\* FIELD_IDS and Object.values(FIELD_IDS)
FIELD_IDS ==
    [EMAIL |-> 1, PHONE |-> 2, NAME |-> 3, ADDRESS |-> 4,
     PAN_CARD |-> 5, PASSPORT |-> 6, CREDIT_CARD |-> 7, SSN |-> 8]

FieldIdValues == <<1, 2, 3, 4, 5, 6, 7, 8>>

QUERY_TYPES == {"exact", "contains", "starts_with", "ends_with", "partial"}

\* config.search.rateLimitMax with RATE_LIMIT_MAX=1 in the environment
rateLimitMax == 1

\* .replace(/\s+/g, ' ')
RECURSIVE collapseWhitespace(_)
collapseWhitespace(s) ==
    IF Len(s) < 2 THEN s
    ELSE IF s[1] = " " /\ s[2] = " " THEN collapseWhitespace(Tail(s))
    ELSE <<s[1]>> \o collapseWhitespace(Tail(s))

\* normalizeText(text) of the indexer and of the API
normalizeText(text) ==
    IF text = <<>> THEN <<>>
    ELSE trim(collapseWhitespace(toLowerCase(NFKC(text))))

\* [...new Set(array)]: the first occurrence of every element, in order
RECURSIVE newSet(_)
newSet(array) ==
    IF array = <<>> THEN <<>>
    ELSE LET front == newSet(SubSeq(array, 1, Len(array) - 1))
             last == array[Len(array)]
         IN  IF last \in Range(front) THEN front ELSE Append(front, last)

\* the windows bounded.substr(i, n) for i = 0 .. bounded.length - n
windows(bounded, n) ==
    IF Len(bounded) < n THEN <<>>
    ELSE [i \in 1..(Len(bounded) - n + 1) |-> SubSeq(bounded, i, i + n - 1)]

\* PIISearchIndexer.generateTrigrams(normalizedText)
generateTrigrams(normalizedText) ==
    IF Len(normalizedText) < 1 THEN <<>>
    ELSE LET bounded == <<BOUNDARY_START>> \o normalizedText \o <<BOUNDARY_END>>
         IN  newSet(windows(bounded, 3)
                    \o (IF Len(normalizedText) <= 3 THEN windows(bounded, 2) ELSE <<>>))

\* PIISearchAPI.generateQueryTrigrams(normalizedText, queryType)
generateQueryTrigrams(normalizedText, queryType) ==
    IF Len(normalizedText) < 1 THEN <<>>
    ELSE LET bounded ==
                 CASE queryType = "exact" ->
                        <<BOUNDARY_START>> \o normalizedText \o <<BOUNDARY_END>>
                   [] queryType = "starts_with" -> <<BOUNDARY_START>> \o normalizedText
                   [] queryType = "ends_with" -> normalizedText \o <<BOUNDARY_END>>
                   [] OTHER -> normalizedText
         IN  newSet(windows(bounded, 3)
                    \o (IF Len(normalizedText) <= 3 THEN windows(bounded, 2) ELSE <<>>))

\* generateHmacKey(tenantId, fieldId, gram): idx:<version>:<region>:<prefix>:<hmac>,
\* the prefix being the first characters of the hmac
generateHmacKey(tenantId, fieldId, gram) ==
    LET hmac == H(<<tenantId, "|", fieldId, "|", gram>>)
    IN  <<"idx", "1", "us-east-1", hmac[1], hmac>>

\* determineFieldId(decryptedValue) on values without digits
determineFieldId(decryptedValue) ==
    IF \E i \in 1..Len(decryptedValue) : decryptedValue[i] = "@" THEN FIELD_IDS.EMAIL
    ELSE IF (\E i \in 1..Len(decryptedValue) : decryptedValue[i] = " ")
            /\ Len(decryptedValue) > 10
    THEN FIELD_IDS.ADDRESS
    ELSE FIELD_IDS.NAME

\* PIISearchIndexer.indexRecord after decryption: the store after the call
indexRecord(store, recordId, decryptedValue, tenantId, opaqueToken) ==
    LET fieldId == determineFieldId(decryptedValue)
        normalizedText == normalizeText(decryptedValue)
        trigrams == generateTrigrams(normalizedText)
        hmacKeys == [i \in 1..Len(trigrams) |-> generateHmacKey(tenantId, fieldId, trigrams[i])]
        tokenMapping == [token |-> opaqueToken, tenantId |-> tenantId, recordId |-> recordId,
                         fieldId |-> fieldId, valueHash |-> <<"sha256", decryptedValue>>,
                         version |-> "1"]
        reverseKey == <<"ridx", "null", recordId, fieldId>>
    IN  IF normalizedText = <<>> THEN store
        ELSE (reverseKey :> (reverse(hmacKeys)
                             \o (IF reverseKey \in DOMAIN store THEN store[reverseKey] ELSE <<>>)))
             @@ sAddAll((<<"token", opaqueToken>> :> tokenMapping) @@ store,
                        hmacKeys, opaqueToken)

\* GET rate:<clientId>, parsed: 0 when the key does not exist
rateCount(store, clientId) ==
    IF <<"rate", clientId>> \in DOMAIN store THEN store[<<"rate", clientId>>] ELSE 0

\* MULTI INCR rate:<clientId> EXPIRE ... EXEC
rateIncr(store, clientId) ==
    (<<"rate", clientId>> :> rateCount(store, clientId) + 1) @@ store

\* LRANGE audit:search
auditEntries(store) ==
    IF <<"audit:search">> \in DOMAIN store THEN store[<<"audit:search">>] ELSE <<>>

\* auditLog(queryInfo): LPUSH audit:search
auditLog(store, queryInfo) ==
    (<<"audit:search">> :>
        (<<[clientId |-> queryInfo.clientId, queryType |-> queryInfo.queryType,
            fieldIds |-> queryInfo.fieldIds,
            queryLength |-> Len(queryInfo.normalizedQuery),
            resultCount |-> queryInfo.resultCount]>> \o auditEntries(store))) @@ store

\* intersectPostingLists(hmacKeys)
intersectPostingLists(store, hmacKeys) ==
    IF Len(hmacKeys) = 0 THEN {}
    ELSE IF Len(hmacKeys) = 1 THEN sMembers(store, hmacKeys[1])
    ELSE sInter(store, hmacKeys)

\* resolveTokens(opaqueTokens): the tokens that have a mapping
resolveTokens(store, opaqueTokens) ==
    {t \in opaqueTokens : <<"token", t>> \in DOMAIN store}

\* the part of PIISearchAPI.search that follows checkRateLimit: the store and
\* the object returned
searchAdmitted(store, minSize, query, queryType, fieldIds, clientId) ==
    LET normalizedQuery == normalizeText(query)
        queryTrigrams == generateQueryTrigrams(normalizedQuery, queryType)
        searchFieldIds == IF fieldIds = null THEN FieldIdValues
                          ELSE CHOOSE a \in fieldIds : TRUE
        allHmacKeys ==
            [i \in 1..(Len(searchFieldIds) * Len(queryTrigrams)) |->
                generateHmacKey("", searchFieldIds[((i - 1) \div Len(queryTrigrams)) + 1],
                                queryTrigrams[((i - 1) % Len(queryTrigrams)) + 1])]
        matchingTokens == intersectPostingLists(store, allHmacKeys)
        results == resolveTokens(store, matchingTokens)
        asked == [op |-> "search", admitted |-> TRUE, query |-> query,
                  queryType |-> queryType, fieldIds |-> fieldIds]
    IN  IF Len(queryTrigrams) = 0
        THEN [store |-> store,
              response |-> asked @@ [success |-> FALSE,
                                     error |-> "Query too short to generate searchable trigrams"]]
        ELSE IF Cardinality(matchingTokens) > 0 /\ Cardinality(matchingTokens) < minSize
        THEN [store |-> store,
              response |-> asked @@ [success |-> FALSE, error |-> "Search results blocked"]]
        ELSE [store |-> auditLog(store, [clientId |-> clientId, queryType |-> queryType,
                                         fieldIds |-> searchFieldIds,
                                         normalizedQuery |-> normalizedQuery,
                                         resultCount |-> Cardinality(results)]),
              response |-> asked @@ [success |-> TRUE, results |-> results,
                                     trigrams |-> queryTrigrams]]

\* the validation of PIISearchAPI.search that precedes checkRateLimit: the
\* message of the error thrown, or ""
searchValidation(query, queryType) ==
    IF query = <<>> THEN "Query must be a non-empty string"
    ELSE IF Len(query) < MIN_QUERY_LENGTH THEN "Query must be at least 2 characters long"
    ELSE IF queryType \notin QUERY_TYPES THEN "Invalid query type"
    ELSE ""

\* the object returned by a search that checkRateLimit or the validation ended
searchRefused(query, queryType, fieldIds, error) ==
    [op |-> "search", admitted |-> FALSE, success |-> FALSE, error |-> error]

\* PIISearchAPI.search(query, options) run without interruption
apiSearch(store, minSize, query, queryType, fieldIds, clientId) ==
    IF searchValidation(query, queryType) # ""
    THEN [store |-> store,
          response |-> searchRefused(query, queryType, fieldIds,
                                     searchValidation(query, queryType))]
    ELSE IF rateCount(store, clientId) >= rateLimitMax
    THEN [store |-> store,
          response |-> searchRefused(query, queryType, fieldIds, "Rate limit exceeded")]
    ELSE searchAdmitted(rateIncr(store, clientId), minSize, query, queryType, fieldIds,
                        clientId)

\* decrypted values of the records: "abcd", "abc", "a@bc" and a blank
ApiValues ==
    {<<"a", "b", "c", "d">>, <<"a", "b", "c">>, <<"a", "@", "b", "c">>, <<" ">>}

\* what generateOpaqueToken returns, call after call
ApiTokens == <<"tok1", "tok2">>

ApiQueries == {<<"A", "b">>, <<"a", "b", "c">>, <<" ", " ">>, <<"a">>}

ApiQueryTypes == {"exact", "contains", "starts_with", "ends_with"}

\* options.fieldIds: null, or {a} for an array a
ApiFieldIds == {null, {<<3>>}}

\* MIN_RESULT_SIZE=1 or 2 in the environment of the API
InitApi ==
    /\ redis = EmptyMap
    /\ db = EmptyMap
    /\ now = 0
    /\ minResultSize \in {1, 2}
    /\ indexed = {}
    /\ ops = 0
    /\ response = NoResponse
    /\ calls = NoCalls
    /\ session = NoTransaction
    /\ lookups = NoLookups

\* PIISearchIndexer.indexRecord with a token nobody holds yet
IndexRecord(recordId, decryptedValue) ==
    /\ \E n \in 1..Len(ApiTokens) :
          /\ <<"token", ApiTokens[n]>> \notin DOMAIN redis
          /\ \A m \in 1..(n - 1) : <<"token", ApiTokens[m]>> \in DOMAIN redis
          /\ redis' = indexRecord(redis, recordId, decryptedValue, "", ApiTokens[n])
          /\ indexed' = IF normalizeText(decryptedValue) = <<>> THEN indexed
                        ELSE indexed \cup {[token |-> ApiTokens[n],
                                            fieldId |-> determineFieldId(decryptedValue),
                                            value |-> normalizeText(decryptedValue)]}
    /\ response' = [op |-> "indexRecord", recordId |-> recordId,
                    indexed |-> normalizeText(decryptedValue) # <<>>]
    /\ UNCHANGED <<db, now, minResultSize, ops, calls, session, lookups>>

\* PIISearchAPI.search as a request that nothing interrupts
ApiSearch(query, queryType, fieldIds) ==
    /\ redis' = apiSearch(redis, minResultSize, query, queryType, fieldIds, "anonymous").store
    /\ response' =
          apiSearch(redis, minResultSize, query, queryType, fieldIds, "anonymous").response
    /\ UNCHANGED <<db, now, minResultSize, indexed, ops, calls, session, lookups>>

NextApi ==
    \/ \E decryptedValue \in ApiValues : IndexRecord(1, decryptedValue)
    \/ \E query \in ApiQueries, queryType \in ApiQueryTypes, fieldIds \in ApiFieldIds :
           ApiSearch(query, queryType, fieldIds)

SpecApi == InitApi /\ [][NextApi]_vars

----------------------------------------------------------------------------
(* PIISearchAPI.search called by two callers at once: each await of           *)
(* checkRateLimit is a point where the other call can run.  ops counts the    *)
(* searches admitted since the counter of the client last expired.            *)

RateQuery == <<"a", "b", "c">>

\* const current = await this.redisClient.get(key), and the test that follows
RateGet(c) ==
    /\ calls[c].pc = "idle"
    /\ IF rateCount(redis, "anonymous") >= rateLimitMax
       THEN /\ response' = searchRefused(RateQuery, "exact", {<<3>>}, "Rate limit exceeded")
            /\ calls' = calls
       ELSE /\ calls' = [calls EXCEPT ![c] = [pc |-> "incr"]]
            /\ response' = NoResponse
    /\ UNCHANGED <<redis, db, now, minResultSize, indexed, ops, session, lookups>>

\* await this.redisClient.multi().incr(key).expire(key, window).exec()
RateIncr(c) ==
    /\ calls[c].pc = "incr"
    /\ redis' = rateIncr(redis, "anonymous")
    /\ ops' = ops + 1
    /\ calls' = [calls EXCEPT ![c] = [pc |-> "search"]]
    /\ response' = NoResponse
    /\ UNCHANGED <<db, now, minResultSize, indexed, session, lookups>>

\* the rest of search, from normalizeText to the return
SearchRest(c) ==
    /\ calls[c].pc = "search"
    /\ redis' = searchAdmitted(redis, minResultSize, RateQuery, "exact", {<<3>>},
                               "anonymous").store
    /\ response' = searchAdmitted(redis, minResultSize, RateQuery, "exact", {<<3>>},
                                  "anonymous").response
    /\ calls' = [calls EXCEPT ![c] = [pc |-> "idle"]]
    /\ UNCHANGED <<db, now, minResultSize, indexed, ops, session, lookups>>

\* the key rate:<clientId> reaches the end of its time to live
ExpireRate ==
    /\ <<"rate", "anonymous">> \in DOMAIN redis
    /\ Len(auditEntries(redis)) < MaxOps
    /\ redis' = del(redis, <<"rate", "anonymous">>)
    /\ ops' = 0
    /\ response' = NoResponse
    /\ UNCHANGED <<db, now, minResultSize, indexed, calls, session, lookups>>

NextRate ==
    \/ \E decryptedValue \in ApiValues : IndexRecord(1, decryptedValue)
    \/ \E c \in Callers : RateGet(c)
    \/ \E c \in Callers : RateIncr(c)
    \/ \E c \in Callers : SearchRest(c)
    \/ ExpireRate

SpecRate == InitApi /\ [][NextRate]_vars

----------------------------------------------------------------------------
(* What a value matches *)

IsPrefix(p, s) == Len(p) <= Len(s) /\ SubSeq(s, 1, Len(p)) = p

IsSuffix(p, s) == Len(p) <= Len(s) /\ SubSeq(s, Len(s) - Len(p) + 1, Len(s)) = p

Prefixes(s) == {SubSeq(s, 1, i) : i \in 1..Len(s)}

Suffixes(s) == {SubSeq(s, i, Len(s)) : i \in 1..Len(s)}

Substrings(s) == {SubSeq(s, i, j) : i \in 1..Len(s), j \in 1..Len(s)} \ {<<>>}

\* the same query in upper case and with surrounding white space
Shouted(q) ==
    <<" ">> \o [i \in 1..Len(q) |->
                  CASE q[i] = "a" -> "A" [] q[i] = "b" -> "B" [] OTHER -> q[i]] \o <<" ">>

\* the token is indexed under the field of fieldName with no other value than value
OnlyValue(fieldName, value, token) ==
    \A r \in indexed :
        (getFieldAlias(r.fieldName) = getFieldAlias(fieldName) /\ r.token = token)
            => normalize(r.value) = normalize(value)

----------------------------------------------------------------------------
(* Claims about the index under ingestion, search and erasure (Spec) *)

\* C1, in-memory half: after indexFieldValue(field, v, ref) every non-empty
\* prefix of normalize(v) finds ref with startsWith in the in-memory store.
RedisPrefixComplete ==
    \A r \in indexed : \A p \in Prefixes(normalize(r.value)) :
        r.token \in RedisSearch(redis, r.fieldName, "startsWith", p)

\* C1: prefix completeness. After indexFieldValue(field, v, ref) has completed
\* on either backend, search(field, 'startsWith', p) contains ref for every
\* non-empty prefix p of normalize(v).
C1_PrefixComplete ==
    \A r \in indexed : \A p \in Prefixes(normalize(r.value)) :
        /\ r.token \in RedisSearch(redis, r.fieldName, "startsWith", p)
        /\ r.token \in DbSearch(db, now, r.fieldName, "startsWith", p)

\* C2, in-memory half
RedisSuffixComplete ==
    \A r \in indexed : \A q \in Suffixes(normalize(r.value)) :
        r.token \in RedisSearch(redis, r.fieldName, "endsWith", q)

\* C2: suffix completeness. After indexFieldValue(field, v, ref) has completed
\* on either backend, search(field, 'endsWith', s) contains ref for every
\* non-empty suffix s of normalize(v); the query is the single key of the
\* reversed query, which is among the keys the value was indexed under.
C2_SuffixComplete ==
    \A r \in indexed : \A q \in Suffixes(normalize(r.value)) :
        LET alias == getFieldAlias(r.fieldName)
        IN  /\ keysFor(alias, "endsWith", q, K) = <<IndexKey(alias, "suf", reverse(q))>>
            /\ IndexKey(alias, "suf", reverse(q)) \in Range(generateAllIndexKeys(alias, r.value, K))
            /\ r.token \in RedisSearch(redis, r.fieldName, "endsWith", q)
            /\ r.token \in DbSearch(db, now, r.fieldName, "endsWith", q)

\* C3, in-memory half
RedisSubstringComplete ==
    \A r \in indexed : \A q \in Substrings(normalize(r.value)) :
        Len(q) >= K => r.token \in RedisSearch(redis, r.fieldName, "contains", q)

\* C3: substring completeness. After indexFieldValue(field, v, ref) has
\* completed on either backend, search(field, 'contains', q) contains ref for
\* every substring q of normalize(v) of at least K characters.
C3_SubstringComplete ==
    \A r \in indexed : \A q \in Substrings(normalize(r.value)) :
        Len(q) >= K =>
            /\ r.token \in RedisSearch(redis, r.fieldName, "contains", q)
            /\ r.token \in DbSearch(db, now, r.fieldName, "contains", q)

\* C4, in-memory half
RedisEqualitySound ==
    \A r \in indexed :
        /\ \A q \in {r.value, normalize(r.value), Shouted(normalize(r.value))} :
                r.token \in RedisSearch(redis, r.fieldName, "eq", q)
        /\ \A q \in Queries :
                (q # normalize(r.value) /\ OnlyValue(r.fieldName, r.value, r.token))
                    => r.token \notin RedisSearch(redis, r.fieldName, "eq", q)

\* C4: equality soundness and completeness. For every indexed (field, v, ref),
\* eq(field, v) contains ref, also when the query differs from v by case or
\* surrounding white space, and eq(field, v') does not contain ref for a v'
\* other than normalize(v) when ref is indexed under the field with v only.
C4_EqualitySound ==
    \A r \in indexed :
        /\ \A q \in {r.value, normalize(r.value), Shouted(normalize(r.value))} :
                /\ r.token \in RedisSearch(redis, r.fieldName, "eq", q)
                /\ r.token \in DbSearch(db, now, r.fieldName, "eq", q)
        /\ \A q \in Queries :
                (q # normalize(r.value) /\ OnlyValue(r.fieldName, r.value, r.token))
                    => /\ r.token \notin RedisSearch(redis, r.fieldName, "eq", q)
                       /\ r.token \notin DbSearch(db, now, r.fieldName, "eq", q)

\* the token is indexed under the field of fieldName with a value that op matches to query
Matches(fieldName, op, query, token) ==
    \E r \in indexed :
        /\ getFieldAlias(r.fieldName) = getFieldAlias(fieldName)
        /\ r.token = token
        /\ IF op = "startsWith" THEN IsPrefix(normalize(query), normalize(r.value))
                                ELSE IsSuffix(normalize(query), normalize(r.value))

\* C5: no false positives of prefix and suffix queries. On both backends
\* search(field, 'startsWith', q) returns a ref only if the ref was indexed
\* under that field with a value whose normalized form starts with
\* normalize(q), and search(field, 'endsWith', q) only if it ends with it.
C5_NoFalsePositive ==
    \A f \in FieldNames, op \in {"startsWith", "endsWith"}, q \in Queries \cup SearchQueries :
        \A t \in RedisSearch(redis, f, op, q) \cup DbSearch(db, now, f, op, q) :
            Matches(f, op, q, t)

\* C5 witness: the same token is indexed under two fields with different
\* values, a prefix query and a suffix query find it under the first field on
\* both backends, and neither query matches the value of the second field.
C5_Witness ==
    \E r1 \in indexed, r2 \in indexed :
        /\ getFieldAlias(r1.fieldName) # getFieldAlias(r2.fieldName)
        /\ r1.token = r2.token
        /\ normalize(r2.value) # <<>>
        /\ \E p \in Queries, q \in Queries :
              /\ r1.token \in RedisSearch(redis, r1.fieldName, "startsWith", p)
              /\ r1.token \in DbSearch(db, now, r1.fieldName, "startsWith", p)
              /\ r1.token \in RedisSearch(redis, r1.fieldName, "endsWith", q)
              /\ r1.token \in DbSearch(db, now, r1.fieldName, "endsWith", q)
              /\ ~IsPrefix(p, normalize(r2.value))
              /\ ~IsSuffix(q, normalize(r2.value))
        /\ response.op = "search" /\ response.tokens # {}

\* C6: backend equivalence. After the same index operations on both backends
\* every query of the four operators returns the same set of refs from
\* FieldAwareRedisIndexer.search and from PIIDatabaseSearchAPI.search.
C6_BackendsAgree ==
    \A f \in FieldNames, op \in VALID_OPS, q \in Queries \cup SearchQueries :
        RedisSearch(redis, f, op, q) = DbSearch(db, now, f, op, q)

\* C7: erasure round trip. After indexFieldValue(field, v, ref) followed by
\* removeFieldValue(field, v, ref) no query of the field returns ref, and ref
\* is in none of the posting lists of the value.
C7_ErasedIsGone ==
    (response.op = "removeFieldValue"
        /\ normalize(response.value) # <<>>
        /\ OnlyValue(response.fieldName, response.value, response.token))
    => /\ \A op \in VALID_OPS, q \in Queries \cup SearchQueries :
            response.token \notin RedisSearch(redis, response.fieldName, op, q)
       /\ \A key \in Range(generateAllIndexKeys(getFieldAlias(response.fieldName),
                                                response.value, K)) :
            response.token \notin sMembers(redis, key)

\* C8: k-anonymity gate of performSearch. When the true result of the
\* predicate has n refs with 1 <= n <= minResultSize - 1, the returned token
\* set is empty and kAnonymityApplied is true; when n = 0 or n >= minResultSize
\* kAnonymityApplied is false and the returned set is the true result.
C8_Gate ==
    (response.op = "performSearch" /\ response.error = "")
    => LET truth == DbSearch(db, now, response.fieldType,
                             QueryOperation(response.queryType), response.query)
           n == Cardinality(truth)
       IN  /\ (1 <= n /\ n <= minResultSize - 1)
                => (response.tokens = {} /\ response.kAnonymityApplied)
           /\ (n = 0 \/ n >= minResultSize)
                => (response.tokens = truth /\ ~response.kAnonymityApplied)

\* C8 witness: performSearch has answered a predicate that matches at least
\* one ref and fewer than minResultSize, with an empty set and the flag set.
C8_Witness ==
    /\ response.op = "performSearch" /\ response.error = ""
    /\ response.resultCount >= 1
    /\ response.resultCount < minResultSize
    /\ Cardinality(DbSearch(db, now, response.fieldType,
                            QueryOperation(response.queryType), response.query))
          = response.resultCount
    /\ response.tokens = {}
    /\ response.kAnonymityApplied

\* C9: the k-anonymity gate on Boolean-composed queries. The set the caller
\* of executeComplexQuery receives never has n refs with 0 < n < minResultSize:
\* such a result is replaced by the empty set.
C9_ComplexGate ==
    (response.op = "executeComplexQuery" /\ response.error = "")
    => \/ response.tokens = {}
       \/ Cardinality(response.tokens) >= minResultSize

\* retention on the relational table: a lookup or a search at a time strictly
\* after a row's retention_until returns no ref from that row
DbExpiredInvisible ==
    /\ \A key \in ExpiredKeys(db, now) :
          /\ searchTokensInIndex(db, <<key>>, now) = {}
          /\ search_tokens_by_keys(db, <<key>>, now) = {}
    /\ \A f \in IndexFields, op \in VALID_OPS, q \in SearchQueries :
          (Range(keysFor(getFieldAlias(f), op, normalize(q), K)) \cap ExpiredKeys(db, now) # {})
              => DbSearch(db, now, f, op, q) = {}

\* C10: retention. A query at a time strictly after an index entry's
\* expires_at returns no ref from that entry, on the relational table and on
\* the set store, whether or not the sweep has run.
C10_ExpiredInvisible ==
    /\ DbExpiredInvisible
    /\ \A f \in IndexFields, op \in VALID_OPS, q \in SearchQueries :
          (Range(keysFor(getFieldAlias(f), op, normalize(q), K)) \cap ExpiredKeys(db, now) # {})
              => RedisSearch(redis, f, op, q) = {}

\* the keys of a value under which a lookup on the committed table returns the ref
DbHolding(keys, token) ==
    {key \in Range(keys) : token \in searchTokensInIndex(db, <<key>>, now)}

\* the keys of a value under which the set store holds the ref
RedisHolding(keys, token) == {key \in Range(keys) : token \in sMembers(redis, key)}

\* per-value atomicity on the set store: every search finds the ref under all
\* keys of the value or under none
RedisPerValueAtomic ==
    LET keys == generateAllIndexKeys(getFieldAlias("EMAIL"), RedisCallValue, K)
    IN  RedisHolding(keys, RedisCallToken) \in {{}, Range(keys)}

\* C11: per-value atomicity. Whatever the interleaving of indexFieldValue
\* calls of fresh refs, a search finds the ref of a call under all index keys
\* of its value or under none, and under none when the call has failed.
C11_PerValueAtomic ==
    /\ RedisPerValueAtomic
    /\ \A c \in Callers :
          calls[c].pc # "idle"
          => /\ DbHolding(calls[c].keys, calls[c].token) \in {{}, Range(calls[c].keys)}
             /\ calls[c].pc = "failed" => DbHolding(calls[c].keys, calls[c].token) = {}

\* C12: per-predicate consistency. The result a multi-key 'contains' search
\* returns is what the predicate evaluates to on the table as it was at one
\* single instant between the start and the end of the search.
C12_OneSnapshot ==
    (lookups.pc = "done" /\ response.op = "search" /\ response.backend = "db")
    => response.tokens \in lookups.snapshots

\* the index keys an ingested value was added under
KeysOf(r) == Range(generateAllIndexKeys(getFieldAlias(r.fieldName), r.value, K))

\* the set of refs decoded from the token_set of key
Decoded(rows, key) ==
    IF key \in DOMAIN rows THEN Range(string_to_array(rows[key].token_set)) ELSE {}

\* key-level convergence on the set store: two refs added to the same key are
\* both in its set
RedisConverges ==
    \A r1 \in indexed, r2 \in indexed :
        r1.token # r2.token
        => \A key \in KeysOf(r1) \cap KeysOf(r2) : {r1.token, r2.token} \subseteq sMembers(redis, key)

\* C13: key-level convergence. After add(key, refA) and add(key, refB) of two
\* distinct refs on the same key, in either order, the posting list of key
\* holds both refs on the set store and on the relational table.
C13_Converges ==
    /\ RedisConverges
    /\ \A r1 \in indexed, r2 \in indexed :
          r1.token # r2.token
          => \A key \in KeysOf(r1) \cap KeysOf(r2) : {r1.token, r2.token} \subseteq Decoded(db, key)

\* C14: add appends the ref. After addTokenToIndex(key, ref, ...) the ref is
\* a member of the set decoded from the token_set of key, whatever the ref and
\* whatever the posting list held before.
C14_AddAppends ==
    \A r \in indexed : \A key \in KeysOf(r) : r.token \in Decoded(db, key)

\* C15: short 'contains' queries. What search returns for a 'contains' query
\* whose normalized length is below K is an error, so that the caller can tell
\* it from the answer to a query that matches nothing.
C15_ShortQueryError ==
    \A f \in FieldNames, q \in Queries \cup SearchQueries :
        (/\ Len(normalize(q)) < K
         /\ response = [op |-> "search", backend |-> "db",
                        tokens |-> DbSearch(db, now, f, "contains", q)])
        => "error" \in DOMAIN response

\* C16: invalid requests are rejected. A search whose field name is outside
\* the field map (in any case) or whose operator is none of eq, startsWith,
\* endsWith, contains fails with an error and looks up no index key.
C16_RejectsInvalid ==
    (/\ response.op = "search"
     /\ "operator" \in DOMAIN response
     /\ \/ toUpperCaseName(response.fieldName) \notin DOMAIN fieldMap
        \/ response.operator \notin VALID_OPS)
    => /\ "error" \in DOMAIN response
       /\ response.lookedUp = 0

\* the set the i-th condition of an answered complex query evaluates to
ConditionSet(r, i) ==
    IF r.backend = "db"
    THEN DbSearch(db, now, r.conditions[i].field,
                  DbConditionOp(r.conditions[i].operation), r.conditions[i].value)
    ELSE RedisSearch(redis, r.conditions[i].field,
                     RedisConditionOp(r.conditions[i].operation), r.conditions[i].value)

\* the answer to the conditions of r taken in the order p
Reordered(r, p) ==
    LET cs == [i \in 1..Len(r.conditions) |-> r.conditions[p[i]]]
    IN  IF r.backend = "db"
        THEN DbExecuteComplexQuery(db, now, cs, r.operator)
        ELSE RedisExecuteComplexQuery(redis, cs, r.operator)

ComplexAnswered ==
    /\ response.op = "executeComplexQuery"
    /\ "conditions" \in DOMAIN response
    /\ response.error = ""

\* C17: executeComplexQuery(conditions, 'AND') answers with exactly the refs that
\* every condition evaluates to, executeComplexQuery(conditions, 'OR') with
\* exactly the refs that some condition evaluates to, and the answer is the same
\* for every order of the conditions.
C17_BooleanComposition ==
    ComplexAnswered =>
        LET n == Len(response.conditions)
            all == UNION {ConditionSet(response, i) : i \in 1..n}
        IN  /\ response.operator = "AND" =>
                   response.tokens = {t \in all : \A i \in 1..n : t \in ConditionSet(response, i)}
            /\ response.operator = "OR" => response.tokens = all
            /\ \A p \in Permutations(1..n) :
                   /\ Reordered(response, p).error = ""
                   /\ Reordered(response, p).tokens = response.tokens

\* an AND of three conditions that evaluate to three different sets, none of
\* which is the answer
C17_Witness ==
    /\ ComplexAnswered
    /\ response.operator = "AND"
    /\ Len(response.conditions) = 3
    /\ Cardinality({ConditionSet(response, i) : i \in 1..3}) = 3
    /\ \A i \in 1..3 : ConditionSet(response, i) # response.tokens

\* C18: a value whose normalized form is empty is skipped by indexFieldValue:
\* no entry exists under any key derived from it, in either store.
C18_EmptySkipped ==
    \A r \in indexed :
        normalize(r.value) = <<>> =>
            \A key \in Range(generateAllIndexKeys(getFieldAlias(r.fieldName), r.value, K)) :
                /\ key \notin DOMAIN redis
                /\ key \notin DOMAIN db

\* the count a sweep reports
SweepCount(r) ==
    IF r.op = "cleanupExpiredEntries" THEN r.rowCount ELSE r.deleted_count

\* C19: a sweep at time now (cleanupExpiredEntries, gdpr_cleanup_search_index)
\* leaves exactly the entries whose retention_until is later than now, and
\* reports the number of entries it removed.
C19_SweepRemovesExpired ==
    [][response'.op \in {"cleanupExpiredEntries", "gdpr_cleanup_search_index"} =>
          /\ DOMAIN db' = {k \in DOMAIN db : db[k].retention_until > now}
          /\ SweepCount(response') = Cardinality(DOMAIN db \ DOMAIN db')]_vars

\* C20: an add on an existing key sets retention_until to the later of the old
\* and the new date, so that it never decreases, and leaves field_type and
\* created_at as they are; an add that creates the entry records its own
\* field type, which is therefore the one every later add finds.
C20_AddKeepsTags ==
    [][response'.op = "addTokenToIndex" =>
          LET key == response'.hmacKey
          IN  IF key \in DOMAIN db
              THEN /\ db'[key].retention_until = Max(db[key].retention_until, response'.retention)
                   /\ db'[key].retention_until >= db[key].retention_until
                   /\ db'[key].field_type = db[key].field_type
                   /\ db'[key].created_at = db[key].created_at
              ELSE /\ db'[key].field_type = response'.fieldType
                   /\ db'[key].created_at = now
                   /\ db'[key].retention_until = response'.retention]_vars

\* an add with an earlier date and another field type has been made on an
\* entry created before
C20_Witness ==
    /\ response.op = "addTokenToIndex"
    /\ response.hmacKey \in DOMAIN db
    /\ db[response.hmacKey].retention_until > response.retention
    /\ db[response.hmacKey].field_type # response.fieldType
    /\ db[response.hmacKey].created_at < now

C22_IntersectIsFold ==
    response.op = "search_tokens_intersection" =>
        response.tokens =
            intersection([i \in 1..Len(response.hmac_keys) |->
                            search_tokens_by_keys(db, <<response.hmac_keys[i]>>, now)])

\* the token is in none of the posting lists of the phrase
InNoList(store, phrase, token) ==
    \A key \in Range(spread(idxKeys(phrase, K))) : token \notin sMembers(store, key)

\* C23: removal is idempotent. After removePhraseToken(phrase, token) a second
\* removePhraseToken(phrase, token) leaves every posting list as it is; a
\* removal of a pair whose token is in none of the lists of the phrase changes
\* nothing; and equalsLookup(phrase) does not return the token.
C23_RemoveIdempotent ==
    [][response'.op = "removePhraseToken" =>
          /\ removePhraseToken(redis', response'.phrase, response'.token) = redis'
          /\ InNoList(redis, response'.phrase, response'.token) => redis' = redis
          /\ response'.token \notin equalsLookup(redis', response'.phrase)]_vars

\* a removal has taken the token out of lists that still hold another token
C23_Witness ==
    /\ response.op = "removePhraseToken"
    /\ InNoList(redis, response.phrase, response.token)
    /\ equalsLookup(redis, response.phrase) # {}
    /\ \E r \in indexed : r.token = response.token

\* every lookup that matches the phrase returns the token
FoundByAll(store, phrase, token) ==
    LET n == norm(phrase)
    IN  /\ token \in equalsLookup(store, phrase)
        /\ \A i \in 1..Len(n) : token \in startsWithLookup(store, SubSeq(n, 1, i))
        /\ \A i \in 1..Len(n) : token \in endsWithLookup(store, SubSeq(n, i, Len(n)))
        /\ \A i \in 1..Len(n), j \in 1..Len(n) :
               j - i + 1 >= K => token \in containsLookup(store, SubSeq(n, i, j), K)

\* C29: removing one phrase of a token does not hide its other phrases. When
\* removePhraseToken(p1, token) removes a phrase that was added for the token,
\* every other phrase p2 added for the token that every matching equality,
\* prefix, suffix and contains lookup found before is still found by all of
\* them afterwards.
C29_OtherPhrasesStay ==
    [][(/\ response'.op = "removePhraseToken"
        /\ [phrase |-> response'.phrase, token |-> response'.token] \in indexed) =>
          \A r \in indexed' :
              (r.token = response'.token /\ FoundByAll(redis, r.phrase, r.token))
              => FoundByAll(redis', r.phrase, r.token)]_vars

\* C30: no lost add under a concurrent erase. Once removePhraseToken(p, tokenA),
\* cleanupEmptyKeys included, and a concurrent addPhraseToken(p', tokenB) have
\* both completed, tokenB is a member of every index key of p'.
C30_NoLostAdd ==
    (calls[1].pc = "done" /\ calls[2].pc = "done")
    => \A key \in Range(spread(idxKeys(calls[2].phrase, K))) :
           calls[2].token \in sMembers(redis, key)

\* C24: audit trail. Every PIISearchAPI.search that the rate limiter admits
\* appends exactly one entry to audit:search, whether it returns results,
\* finds nothing, is blocked by the k-anonymity check or fails.
C24_AdmittedIsAudited ==
    [][(response'.op = "search" /\ response'.admitted) =>
          Len(auditEntries(redis')) = Len(auditEntries(redis)) + 1]_vars

\* the tokens a search of the one field fieldId finds for the query of r
PerField(store, r, fieldId) ==
    LET queryTrigrams == generateQueryTrigrams(normalizeText(r.query), r.queryType)
    IN  intersectPostingLists(store,
            [i \in 1..Len(queryTrigrams) |-> generateHmacKey("", fieldId, queryTrigrams[i])])

\* C26: a search with fieldIds left null searches all fields. It returns the
\* tokens of the union of the per-field searches when that union is empty or
\* has at least minResultSize tokens, and is blocked otherwise.
C26_AllFieldsIsUnion ==
    (/\ response.op = "search"
     /\ response.admitted
     /\ response.fieldIds = null
     /\ generateQueryTrigrams(normalizeText(response.query), response.queryType) # <<>>)
    => LET union == UNION {PerField(redis, response, FieldIdValues[i]) :
                              i \in 1..Len(FieldIdValues)}
       IN  IF Cardinality(union) > 0 /\ Cardinality(union) < minResultSize
           THEN ~response.success
           ELSE response.success /\ response.results = union

\* the normalized value v matches the normalized query q under queryType
TypeMatches(queryType, v, q) ==
    CASE queryType = "exact" -> v = q
      [] queryType = "starts_with" -> IsPrefix(q, v)
      [] queryType = "ends_with" -> IsSuffix(q, v)
      [] OTHER -> \E i \in 1..Len(v) : IsPrefix(q, SubSeq(v, i, Len(v)))

\* C27: the query side matches the index side. For an admitted search, every
\* gram of generateQueryTrigrams(q, type) is among generateTrigrams(v) for
\* every indexed normalized value v that q matches under the type, queries of
\* two or three characters against longer values included.
C27_QueryGramsIndexed ==
    (response.op = "search" /\ response.admitted) =>
        LET q == normalizeText(response.query)
        IN  \A r \in indexed :
                (q # <<>> /\ TypeMatches(response.queryType, r.value, q))
                => Range(generateQueryTrigrams(q, response.queryType))
                       \subseteq Range(generateTrigrams(r.value))

\* C25: rate limiting. Under any interleaving of concurrent searches of one
\* client, the number of searches admitted between two expirations of the
\* client's counter never exceeds rateLimitMax, and every call that reads the
\* counter at the maximum is rejected with a rate-limit error.
C25_RateLimited ==
    /\ [](ops <= rateLimitMax)
    /\ [][\A c \in Callers :
             (/\ calls[c].pc = "idle"
              /\ rateCount(redis, "anonymous") >= rateLimitMax
              /\ calls'[c] # calls[c]) => FALSE]_vars

\* C28: expired refs stay invisible in the relational backend. When
\* addTokenToIndex adds a ref to a key whose row has passed its
\* retention_until, a search of that key returns no ref other than the one
\* just added: the refs the expired row held do not become visible again.
C28_ExpiredStayInvisible ==
    [][(/\ response'.op = "addTokenToIndex"
        /\ response'.hmacKey \in DOMAIN db
        /\ db[response'.hmacKey].retention_until <= now)
       => searchTokensInIndex(db', <<response'.hmacKey>>, now)
             \subseteq {response'.opaqueToken}]_vars

====
